---- MODULE Spec2Model ----
(***************************************************************************)
(* Model of the Alchemy Machine controller (src/src/main.cpp and           *)
(* src/src/WifiFunctions.h).  One step of the model is one execution of    *)
(* loop(): the sensor snapshot, the switch on puzzleState, the MQTT pump   *)
(* client.loop() with the callback it may dispatch, and the four strip     *)
(* updates.  The helper functions onSolve, onReset and gameOver are        *)
(* operators on a record holding the program's globals, so that the        *)
(* statements of loop() compose in program order.                          *)
(***************************************************************************)
EXTENDS Integers, Sequences, FiniteSets, TLC

\* ------------------------------------------------------------------ bounds

\* Number of executions of loop() explored after setup().
MaxTicks == 4

\* ------------------------------------------------------- program constants

numReaders == 2

\* The 30 minute limit of the Solved state, in milliseconds.
Dwell == 1800000

\* Length of the busy-wait of onSolve, in milliseconds.
SequenceMillis == 5000

\* Sum of the delay() calls of setup(): the least value of millis() at the
\* first execution of loop().
BootMillis == 10050

\* unsigned long is 32 bits wide; a value is kept as <<high, low>> half
\* words of 16 bits each.
HalfWord == 65536

Readers == 0 .. (numReaders - 1)
Strips == 1 .. 4

\* Tag identifiers: the two correct beakers, the reset tag, the all-zero
\* identifier, and some other tag.
RedBeaker == "RedBeaker"
BlueBeaker == "BlueBeaker"
ResetTag == "ResetTag"
OtherTag == "OtherTag"
noUid == "noUid"
resetUid == ResetTag
correctUid == [i \in Readers |-> IF i = 0 THEN RedBeaker ELSE BlueBeaker]
Tags == {RedBeaker, BlueBeaker, ResetTag, OtherTag}

States == {"Initializing", "Unpowered", "Powered", "Solved", "GameOver"}

Black == "Black"
Red == "Red"
Green == "Green"
Blue == "Blue"
Purple == "Purple"

\* ------------------------------------------------- 32-bit unsigned values

U32(n) == <<(n \div HalfWord) % HalfWord, n % HalfWord>>

\* a + n modulo 2^32, for a 32-bit a and a natural number n below 2^31.
Add32(a, n) ==
  LET s == a[2] + (n % HalfWord)
  IN  <<(a[1] + (n \div HalfWord) + (s \div HalfWord)) % HalfWord, s % HalfWord>>

\* a + b modulo 2^32, for 32-bit a and b.
Plus32(a, b) ==
  LET s == a[2] + b[2]
  IN  <<(a[1] + b[1] + (s \div HalfWord)) % HalfWord, s % HalfWord>>

\* 1 if a + b passes 2^32 - 1, so that the 32-bit sum starts again from
\* zero, and 0 if not.
Carry32(a, b) == (a[1] + b[1] + ((a[2] + b[2]) \div HalfWord)) \div HalfWord

\* a - b modulo 2^32.
Sub32(a, b) ==
  LET d == a[2] - b[2]
      borrow == IF d < 0 THEN 1 ELSE 0
  IN  <<(a[1] - b[1] - borrow) % HalfWord, d % HalfWord>>

\* a > n, for a 32-bit a and a natural number n below 2^31.
Gt32(a, n) ==
  \/ a[1] > n \div HalfWord
  \/ a[1] = n \div HalfWord /\ a[2] > n % HalfWord

\* ------------------------------------------------------------ light strips

\* A strip: the pattern tag, the pattern's first colour, and the colour its
\* pixels show (every use in main.cpp spans the whole strip).
NewStrip == [ActivePattern |-> "none", Color1 |-> Black, pix |-> Black]

\* ColorSet: immediate fill; clears any running pattern.
ColorSet(s, color) == [s EXCEPT !.pix = color, !.ActivePattern = "none"]

\* Flash: alternate between the colour and dark until replaced.
Flash(s, color) == [s EXCEPT !.ActivePattern = "flash", !.Color1 = color]

\* AcceleratingSequence: a moving lit segment of the colour.
AcceleratingSequence(s, color) ==
  [s EXCEPT !.ActivePattern = "accel", !.Color1 = color]

\* Update: advance the running pattern by one frame.  A frame is taken to
\* be due at each call of loop(): the pixels alternate between the colour
\* and dark.
Update(s) ==
  IF s.ActivePattern = "none" THEN s
  ELSE [s EXCEPT !.pix = IF s.pix = s.Color1 THEN Black ELSE s.Color1]

\* ---------------------------------------------------------------- messages

\* MQTT payloads, as sequences of characters.
MsgSolve == <<"s", "o", "l", "v", "e">>
MsgSolveMixed == <<"S", "o", "L", "V", "e">>
MsgReset == <<"R", "e", "S", "E", "T">>
MsgOther == <<"o", "p", "e", "n">>
Messages == {MsgSolve, MsgSolveMixed, MsgReset, MsgOther}
NoMessage == <<"-">>

tolower(c) ==
  CASE c = "R" -> "r"
    [] c = "S" -> "s"
    [] c = "E" -> "e"
    [] c = "T" -> "t"
    [] c = "O" -> "o"
    [] c = "L" -> "l"
    [] c = "V" -> "v"
    [] OTHER -> c

\* ------------------------------------------------------------------- state

VARIABLES
  puzzleState,     \* PuzzleState
  beakerDoor,      \* level of the beaker lock pin (TRUE = HIGH = locked)
  crystalDoor,     \* level of the crystal lock pin (TRUE = HIGH = released)
  solvedMillis,    \* unsigned long
  currentMillis,   \* unsigned long
  lastUid,         \* last identifier recorded per reader
  beakersCorrect,
  alchemyPower,
  doorClosed,
  LS,              \* the four NeoPatterns objects LS1..LS4
  clock,           \* the value millis() returns
  wraps,           \* how often millis() had started again from zero: now,
                   \* when solvedMillis was taken, when currentMillis was
  obs,             \* what the last execution of loop() was given and did
  nticks           \* executions of loop() so far

vars == <<puzzleState, beakerDoor, crystalDoor, solvedMillis, currentMillis,
          lastUid, beakersCorrect, alchemyPower, doorClosed, LS, clock, wraps,
          obs, nticks>>

\* A poll of a reader: the return code of getInventory and the content of
\* the buffer thisUid after the call.  The buffer is a local that loop()
\* never initialises, so after a failed poll it holds whatever the stack
\* held.
Polls ==
  [rc : {"OK"}, uid : Tags] \cup [rc : {"FAIL"}, uid : {ResetTag, OtherTag}]

\* What a reader reports in a poll: the tag, or noUid when the poll failed.
Reading(r) == IF r.rc = "OK" THEN r.uid ELSE noUid

\* The record of one execution of loop(): the state it started in, the
\* time of its sensor snapshot, what each reader reported, whether a reader
\* held the reset tag, the payload client.loop() dispatched and what the
\* program held when it was dispatched, the command the callback
\* recognised, and how often it pulsed the crystal
\* lock, reset from a reader (from a reader whose poll failed), and ran
\* onSolve (from the switch); whether the 30 minute limit had passed;
\* whether it has called show() on a strip, and whether it has written a
\* lock pin after that.
NoObs ==
  [pre |-> "Initializing", tickMillis |-> U32(0),
   rd |-> [i \in Readers |-> noUid], resetPresent |-> FALSE,
   msg |-> NoMessage,
   atDispatch |-> [puzzleState |-> "Initializing", solvedMillis |-> U32(0),
                   beakerDoor |-> FALSE, crystalDoor |-> FALSE,
                   patterns |-> [k \in Strips |-> "none"]],
   cmd |-> "none", pulses |-> 0, readerResets |-> 0, failResets |-> 0,
   solves |-> 0, switchSolve |-> FALSE, expired |-> FALSE,
   shown |-> FALSE, lockAfterShow |-> FALSE]

\* The globals as one record, so that statements compose.
Machine ==
  [puzzleState |-> puzzleState, beakerDoor |-> beakerDoor,
   crystalDoor |-> crystalDoor, solvedMillis |-> solvedMillis,
   currentMillis |-> currentMillis, lastUid |-> lastUid,
   beakersCorrect |-> beakersCorrect, alchemyPower |-> alchemyPower,
   doorClosed |-> doorClosed, LS |-> LS, clock |-> clock, wraps |-> wraps,
   obs |-> obs]

\* The state, the solve timestamp, the two lock pins and the strips'
\* patterns held by m.
Held(m) ==
  [puzzleState |-> m.puzzleState, solvedMillis |-> m.solvedMillis,
   beakerDoor |-> m.beakerDoor, crystalDoor |-> m.crystalDoor,
   patterns |-> [k \in Strips |-> m.LS[k].ActivePattern]]

\* ------------------------------------------------------------- statements

delay(m, ms) ==
  [m EXCEPT !.clock = Add32(@, ms),
            !.wraps.now = @ + Carry32(m.clock, U32(ms))]

\* LSk.show(): the strip's frame goes out to the hardware.
show(m) == [m EXCEPT !.obs.shown = TRUE]

\* digitalWrite(beakerDoor, ...)
writeBeakerDoor(m, level) ==
  [m EXCEPT !.beakerDoor = level, !.obs.lockAfterShow = @ \/ m.obs.shown]

\* digitalWrite(crystalDoor, ...)
writeCrystalDoor(m, level) ==
  [m EXCEPT !.crystalDoor = level, !.obs.lockAfterShow = @ \/ m.obs.shown]

StopPattern(s) == [s EXCEPT !.ActivePattern = "none"]

\* Faulty variant of SetBlack: the strip is not filled.
SetBlackKeepsPixels(s) == StopPattern(s)

SetBlack(s) == ColorSet(s, Black)

\* LS1.ActivePattern = none; ... LS4.ActivePattern = none;
StopAll(m) == [m EXCEPT !.LS = [k \in Strips |-> StopPattern(m.LS[k])]]

\* LS1.ColorSet(black); ... LS4.ColorSet(black); LS1.show(); ... LS4.show();
BlackAll(m) == show([m EXCEPT !.LS = [k \in Strips |-> SetBlack(m.LS[k])]])

\* Faulty variant of crystalPulse: the pin is never written LOW again.
crystalPulseStuck(m) ==
  delay(writeCrystalDoor([m EXCEPT !.obs.pulses = @ + 1], TRUE), 10)

\* digitalWrite(crystalDoor, HIGH); delay(10); digitalWrite(crystalDoor, LOW)
crystalPulse(m) ==
  LET high == writeCrystalDoor([m EXCEPT !.obs.pulses = @ + 1], TRUE)
  IN  writeCrystalDoor(delay(high, 10), FALSE)

\* if (LSk.ActivePattern != none) { LSk.ColorSet(black); LSk.show(); }
LightsOffIfActive(m) ==
  [m EXCEPT !.LS = [k \in Strips |-> IF m.LS[k].ActivePattern # "none"
                                     THEN SetBlack(m.LS[k]) ELSE m.LS[k]],
            !.obs.shown =
               @ \/ \E k \in Strips : m.LS[k].ActivePattern # "none"]

\* Faulty variant of onReset: puzzleState is left as it was.
onResetKeepsState(m) ==
  LET a == delay(crystalPulse(m), 10)
      b == writeBeakerDoor(a, FALSE)
      c == delay(StopAll(b), 50)
  IN  delay(BlackAll(c), 50)

\* Faulty variant of onReset: beakerDoor is not written.
onResetKeepsLock(m) ==
  LET a == delay(crystalPulse(m), 10)
      c == delay(StopAll(a), 50)
      d == delay(BlackAll(c), 50)
  IN  [d EXCEPT !.puzzleState = "Unpowered"]

onReset(m) ==
  LET a == delay(crystalPulse(m), 10)
      b == writeBeakerDoor(a, FALSE)
      c == delay(StopAll(b), 50)
      d == delay(BlackAll(c), 50)
  IN  [d EXCEPT !.puzzleState = "Unpowered"]

\* onSolve.  The while loop runs for SequenceMillis and calls nothing but
\* the Update of the three strips.
onSolve(m) ==
  LET a == [m EXCEPT !.LS[2] = AcceleratingSequence(@, Red),
                     !.LS[3] = AcceleratingSequence(@, Purple),
                     !.LS[4] = AcceleratingSequence(@, Blue)]
      b == [delay(a, SequenceMillis) EXCEPT
              !.LS[2] = Update(@), !.LS[3] = Update(@), !.LS[4] = Update(@)]
      c == delay(StopAll(b), 50)
      d == delay(BlackAll(c), 50)
      e == show([d EXCEPT
                   !.LS[1] = ColorSet(@, Green), !.LS[2] = ColorSet(@, Green),
                   !.LS[3] = ColorSet(@, Purple), !.LS[4] = ColorSet(@, Green)])
      f == crystalPulse(delay(e, 50))
  IN  [f EXCEPT !.solvedMillis = f.clock, !.wraps.solved = f.wraps.now,
                !.puzzleState = "Solved", !.obs.solves = @ + 1]

gameOver(m) == [writeBeakerDoor(m, FALSE) EXCEPT !.puzzleState = "GameOver"]

\* ------------------------------------------------------- cases of loop()

InitializingCase(m) ==
  LET a == LightsOffIfActive(m)
      b == writeBeakerDoor(a, FALSE)
  IN  [b EXCEPT !.puzzleState = "Unpowered"]

\* Faulty variant of UnpoweredCase: power counts only with the door closed.
UnpoweredCaseNeedsDoor(m) ==
  LET a == LightsOffIfActive(m)
      b == [a EXCEPT !.puzzleState =
                       IF a.alchemyPower /\ a.doorClosed
                       THEN "Powered" ELSE "Unpowered"]
  IN  delay(b, 100)

UnpoweredCase(m) ==
  LET a == LightsOffIfActive(m)
      b == [a EXCEPT !.puzzleState =
                       IF a.alchemyPower THEN "Powered" ELSE "Unpowered"]
  IN  delay(b, 100)

\* Faulty variant of PoweredReader: a failed poll leaves beakersCorrect as
\* it is, so that a reader without a tag no longer counts as incorrect.
PoweredReaderLenient(m, i, r) ==
  IF r.rc # "OK"
  THEN [m EXCEPT !.lastUid[i] = noUid]
  ELSE LET a == [m EXCEPT !.lastUid[i] = r.uid]
           b == IF r.uid # correctUid[i]
                THEN [a EXCEPT !.beakersCorrect = FALSE] ELSE a
       IN  IF r.uid = resetUid
           THEN onReset([b EXCEPT !.obs.readerResets = @ + 1])
           ELSE b

\* One iteration of the reader loop of the Powered case.
PoweredReader(m, i, r) ==
  IF r.rc # "OK"
  THEN [m EXCEPT !.lastUid[i] = noUid, !.beakersCorrect = FALSE]
  ELSE LET a == [m EXCEPT !.lastUid[i] = r.uid]
           b == IF r.uid # correctUid[i]
                THEN [a EXCEPT !.beakersCorrect = FALSE] ELSE a
       IN  IF r.uid = resetUid
           THEN onReset([b EXCEPT !.obs.readerResets = @ + 1])
           ELSE b

\* Faulty variant of PoweredBranch: the branch that calls onSolve is
\* missing.
PoweredBranchNoSolve(m) ==
  IF ~m.beakersCorrect
  THEN LET a == IF m.LS[1].ActivePattern # "flash" \/ m.LS[1].Color1 # Red
                THEN [m EXCEPT !.LS[1] = Flash(@, Red)] ELSE m
       IN  delay(a, 2000)
  ELSE IF ~m.doorClosed
  THEN LET a == IF m.alchemyPower /\ m.beakersCorrect
                THEN writeBeakerDoor(m, TRUE) ELSE m
       IN  IF a.LS[1].ActivePattern # "flash" \/ a.LS[1].Color1 # Green
           THEN [a EXCEPT !.LS[1] = Flash(@, Green)] ELSE a
  ELSE m

\* Faulty variant of PoweredBranch: with the door open the lock is driven
\* HIGH whenever the beakers are correct, power or not.
PoweredBranchLocksWithoutPower(m) ==
  IF ~m.beakersCorrect
  THEN LET a == IF m.LS[1].ActivePattern # "flash" \/ m.LS[1].Color1 # Red
                THEN [m EXCEPT !.LS[1] = Flash(@, Red)] ELSE m
       IN  delay(a, 2000)
  ELSE IF ~m.doorClosed
  THEN LET a == writeBeakerDoor(m, TRUE)
       IN  IF a.LS[1].ActivePattern # "flash" \/ a.LS[1].Color1 # Green
           THEN [a EXCEPT !.LS[1] = Flash(@, Green)] ELSE a
  ELSE IF m.alchemyPower /\ m.beakersCorrect /\ m.doorClosed
  THEN onSolve([m EXCEPT !.obs.switchSolve = TRUE])
  ELSE m

\* The branch of the Powered case that follows the reader loop.
PoweredBranch(m) ==
  IF ~m.beakersCorrect
  THEN LET a == IF m.LS[1].ActivePattern # "flash" \/ m.LS[1].Color1 # Red
                THEN [m EXCEPT !.LS[1] = Flash(@, Red)] ELSE m
       IN  delay(a, 2000)
  ELSE IF ~m.doorClosed
  THEN LET a == IF m.alchemyPower /\ m.beakersCorrect
                THEN writeBeakerDoor(m, TRUE) ELSE m
       IN  IF a.LS[1].ActivePattern # "flash" \/ a.LS[1].Color1 # Green
           THEN [a EXCEPT !.LS[1] = Flash(@, Green)] ELSE a
  ELSE IF m.alchemyPower /\ m.beakersCorrect /\ m.doorClosed
  THEN onSolve([m EXCEPT !.obs.switchSolve = TRUE])
  ELSE m

\* Faulty variant of PowerLoss: the beaker strip LS1 is left as it is.
PowerLossKeepsBeakerStrip(m) ==
  IF m.alchemyPower THEN m
  ELSE LET b == delay(delay(m, 50), 50)
           c == delay([b EXCEPT !.LS[2] = StopPattern(ColorSet(@, Black))], 50)
           d == delay([c EXCEPT !.LS[3] = StopPattern(ColorSet(@, Black))], 50)
           e == show([d EXCEPT !.LS[4] = ColorSet(@, Black)])
       IN  [e EXCEPT !.puzzleState = "Unpowered"]

\* if (!alchemyPower) { ... puzzleState = Unpowered; }
PowerLoss(m) ==
  IF m.alchemyPower THEN m
  ELSE LET a == delay([m EXCEPT !.LS[1] = StopPattern(@)], 50)
           b == delay([a EXCEPT !.LS[1] = StopPattern(ColorSet(@, Black))], 50)
           c == delay([b EXCEPT !.LS[2] = StopPattern(ColorSet(@, Black))], 50)
           d == delay([c EXCEPT !.LS[3] = StopPattern(ColorSet(@, Black))], 50)
           e == show([d EXCEPT !.LS[4] = ColorSet(@, Black)])
       IN  [e EXCEPT !.puzzleState = "Unpowered"]

PoweredCase(m, rd) ==
  LET a == [m EXCEPT !.beakersCorrect = TRUE]
      b == PoweredReader(a, 0, rd[0])
      c == PoweredReader(b, 1, rd[1])
      d == PoweredBranch(delay(c, 50))
  IN  PowerLoss(d)

\* One iteration of the reader loops of the Solved and GameOver cases: the
\* return code is not looked at.
PlainReader(m, i, r) ==
  IF r.uid = resetUid
  THEN onReset([m EXCEPT !.obs.readerResets = @ + 1,
                         !.obs.failResets =
                            IF r.rc # "OK" THEN @ + 1 ELSE @])
  ELSE m

\* Faulty variant of DwellExpired: the limit itself counts as passed.
DwellExpiredAtLimit(cur, solved) ==
  Sub32(cur, solved) = U32(Dwell) \/ Gt32(Sub32(cur, solved), Dwell)

\* Faulty variant of DwellExpired: currentMillis > solvedMillis + 1800000,
\* the sum taken in 32 bits.
DwellExpiredBySum(cur, solved) ==
  LET limit == Add32(solved, Dwell)
  IN  cur[1] > limit[1] \/ (cur[1] = limit[1] /\ cur[2] > limit[2])

\* currentMillis - solvedMillis > 1800000
DwellExpired(cur, solved) == Gt32(Sub32(cur, solved), Dwell)

\* The final light states of the Solved case.
SolvedLights(m) ==
  [m EXCEPT
     !.LS[1] = IF @.Color1 # Green THEN ColorSet(@, Green) ELSE @,
     !.LS[2] = IF @.Color1 # Green THEN ColorSet(@, Green) ELSE @,
     !.LS[3] = IF @.Color1 # Purple THEN ColorSet(@, Purple) ELSE @,
     !.LS[4] = IF @.Color1 # Green THEN ColorSet(@, Green) ELSE @,
     !.obs.shown =
        @ \/ (\E k \in {1, 2, 4} : m.LS[k].Color1 # Green)
          \/ m.LS[3].Color1 # Purple]

SolvedCase(m, rd) ==
  LET a == [m EXCEPT !.currentMillis = m.clock,
                     !.wraps.current = m.wraps.now]
      b == IF DwellExpired(a.currentMillis, a.solvedMillis)
           THEN gameOver([a EXCEPT !.obs.expired = TRUE])
           ELSE SolvedLights(a)
      c == PlainReader(b, 0, rd[0])
  IN  PlainReader(c, 1, rd[1])

GameOverCase(m, rd) ==
  LET a == LightsOffIfActive(m)
      b == PlainReader(a, 0, rd[0])
      c == PlainReader(b, 1, rd[1])
  IN  delay(c, 1000)

\* ------------------------------------------------------------ MQTT callback

lowered(msg) == [k \in 1 .. Len(msg) |-> tolower(msg[k])]

\* Faulty variant of callback: the payload is compared as it arrived.
callbackCaseSensitive(m, msg) ==
  IF msg = <<"s", "o", "l", "v", "e">>
  THEN onSolve([m EXCEPT !.obs.cmd = "solve"])
  ELSE IF msg = <<"r", "e", "s", "e", "t">>
  THEN onReset([m EXCEPT !.obs.cmd = "reset"])
  ELSE [m EXCEPT !.obs.cmd = "unknown"]

\* Faulty variant of callback: a payload that is not "solve" is taken for
\* "reset".
callbackResetsOnUnknown(m, msg) ==
  IF lowered(msg) = <<"s", "o", "l", "v", "e">>
  THEN onSolve([m EXCEPT !.obs.cmd = "solve"])
  ELSE onReset([m EXCEPT !.obs.cmd = "reset"])

callback(m, msg) ==
  IF lowered(msg) = <<"s", "o", "l", "v", "e">>
  THEN onSolve([m EXCEPT !.obs.cmd = "solve"])
  ELSE IF lowered(msg) = <<"r", "e", "s", "e", "t">>
  THEN onReset([m EXCEPT !.obs.cmd = "reset"])
  ELSE [m EXCEPT !.obs.cmd = "unknown"]

\* client.loop(): dispatches the callback when a message has arrived.
clientLoop(m, msg) ==
  IF msg = NoMessage THEN m
  ELSE callback([m EXCEPT !.obs.msg = msg, !.obs.atDispatch = Held(m)], msg)

\* LS1.Update(); LS2.Update(); LS3.Update(); LS4.Update();
UpdateAll(m) == [m EXCEPT !.LS = [k \in Strips |-> Update(m.LS[k])]]

\* ------------------------------------------------------------------ loop()

\* One execution of loop().  power, door: the two digitalRead results;
\* rd: what each reader returns if polled; msg: the MQTT message that has
\* arrived, if any; wait: milliseconds spent since the previous execution
\* ended, as a 32-bit value.
loop(power, door, rd, msg, wait) ==
  LET m0 == [Machine EXCEPT
               !.clock = Plus32(@, wait),
               !.wraps.now = @ + Carry32(clock, wait),
               !.alchemyPower = power, !.doorClosed = door,
               !.obs = [NoObs EXCEPT
                          !.pre = puzzleState,
                          !.tickMillis = Plus32(clock, wait),
                          !.rd = [i \in Readers |-> Reading(rd[i])],
                          !.resetPresent =
                             \E i \in Readers : Reading(rd[i]) = resetUid]]
      m1 == CASE puzzleState = "Initializing" -> InitializingCase(m0)
              [] puzzleState = "Unpowered" -> UnpoweredCase(m0)
              [] puzzleState = "Powered" -> PoweredCase(m0, rd)
              [] puzzleState = "Solved" -> SolvedCase(m0, rd)
              [] puzzleState = "GameOver" -> GameOverCase(m0, rd)
      m2 == clientLoop(delay(m1, 50), msg)
  IN  /\ nticks < MaxTicks
      /\ nticks' = nticks + 1
      /\ \E m \in {UpdateAll(m2)} :
            /\ puzzleState' = m.puzzleState
            /\ beakerDoor' = m.beakerDoor
            /\ crystalDoor' = m.crystalDoor
            /\ solvedMillis' = m.solvedMillis
            /\ currentMillis' = m.currentMillis
            /\ lastUid' = m.lastUid
            /\ beakersCorrect' = m.beakersCorrect
            /\ alchemyPower' = m.alchemyPower
            /\ doorClosed' = m.doorClosed
            /\ LS' = m.LS
            /\ clock' = m.clock
            /\ wraps' = m.wraps
            /\ obs' = m.obs

Absent == [rc |-> "FAIL", uid |-> OtherTag]
Stale == [rc |-> "FAIL", uid |-> ResetTag]
Tag(t) == [rc |-> "OK", uid |-> t]
BothCorrect == [i \in Readers |-> Tag(correctUid[i])]
NoTags == [i \in Readers |-> Absent]

\* What the readers hold in the executions that do not poll them.
IdlePolls ==
  {NoTags, BothCorrect,
   [i \in Readers |-> IF i = 0 THEN Tag(ResetTag) ELSE Absent],
   [i \in Readers |-> IF i = 1 THEN Tag(ResetTag) ELSE Tag(RedBeaker)]}

\* What the readers return in the Powered case, which looks at the buffer
\* only after a successful poll: every combination of no tag, either
\* beaker, the reset tag and another tag.
PoweredPolls == [Readers -> {Absent} \cup {Tag(t) : t \in Tags}]

\* What the readers return in the Solved and GameOver cases, which look at
\* the buffer whatever the return code: failed polls that leave another
\* identifier or the reset identifier in the buffer, and successful polls
\* of a beaker or of the reset tag.
PlainPolls ==
  {NoTags, BothCorrect,
   [i \in Readers |-> IF i = 0 THEN Stale ELSE Absent],
   [i \in Readers |-> IF i = 1 THEN Stale ELSE Tag(RedBeaker)],
   [i \in Readers |-> IF i = 0 THEN Tag(ResetTag) ELSE Tag(BlueBeaker)],
   [i \in Readers |-> IF i = 1 THEN Tag(ResetTag) ELSE Absent],
   [i \in Readers |-> Tag(ResetTag)]}

\* The sensor and reader inputs of the executions in which a message has
\* arrived.
CommandInputs ==
  {<<FALSE, FALSE, NoTags>>, <<TRUE, TRUE, BothCorrect>>,
   <<TRUE, FALSE, BothCorrect>>,
   <<TRUE, FALSE, [i \in Readers |-> IF i = 0 THEN Tag(ResetTag) ELSE Absent]>>,
   <<FALSE, TRUE, [i \in Readers |-> IF i = 0 THEN Tag(RedBeaker) ELSE Absent]>>}

\* The value of millis() IdleMillis before it starts again from zero,
\* reached after some 49 days without power.
IdleMillis == 1000000
LateClock == Sub32(U32(0), U32(IdleMillis))

\* Milliseconds between two executions of loop(): none, or, in the Solved
\* state, what brings the time since solvedMillis to the 30 minute limit,
\* one millisecond less or one more, or, in the Unpowered state of a
\* machine that has not been up for long, what brings millis() to
\* LateClock.
ElapsedNow == Sub32(clock, solvedMillis)
Waits ==
  {U32(0)} \cup
  (IF puzzleState = "Solved" /\ ElapsedNow[1] = 0 /\ ElapsedNow[2] < Dwell - 1
   THEN {U32((Dwell + k) - ElapsedNow[2]) : k \in {-1, 0, 1}}
   ELSE {}) \cup
  (IF puzzleState = "Unpowered" /\ wraps.now = 0 /\ clock[1] = 0
   THEN {Sub32(LateClock, clock)}
   ELSE {})

\* An execution of loop() in which no message has arrived.
Sense(polls) ==
  \E power \in BOOLEAN, door \in BOOLEAN, rd \in polls, wait \in Waits :
     loop(power, door, rd, NoMessage, wait)

\* An execution of loop() in which client.loop() dispatches a message.
Command ==
  \E in \in CommandInputs, msg \in Messages :
     loop(in[1], in[2], in[3], msg, U32(0))

TickInitializing == puzzleState = "Initializing" /\ Sense(IdlePolls)

TickUnpowered == puzzleState = "Unpowered" /\ Sense(IdlePolls)

TickPowered == puzzleState = "Powered" /\ Sense(PoweredPolls)

TickSolved == puzzleState = "Solved" /\ Sense(PlainPolls)

TickGameOver == puzzleState = "GameOver" /\ Sense(PlainPolls)

\* The state when setup() returns.
Init ==
  /\ puzzleState = "Initializing"
  /\ beakerDoor = FALSE
  /\ crystalDoor = FALSE
  /\ solvedMillis = U32(0)
  /\ currentMillis = U32(0)
  /\ lastUid = [i \in Readers |-> noUid]
  /\ beakersCorrect = FALSE
  /\ alchemyPower = FALSE
  /\ doorClosed = FALSE
  /\ LS = [k \in Strips |-> NewStrip]
  /\ clock = U32(BootMillis)
  /\ wraps = [now |-> 0, solved |-> 0, current |-> 0]
  /\ obs = NoObs
  /\ nticks = 0

Next ==
  \/ TickInitializing
  \/ TickUnpowered
  \/ TickPowered
  \/ TickSolved
  \/ TickGameOver
  \/ Command

Spec == Init /\ [][Next]_vars

\* ------------------------------------------------------------- properties

\* A 32-bit value below 2^31 as a natural number.
ToNat(a) == a[1] * HalfWord + a[2]

\* Milliseconds between solvedMillis and the sample the Solved case took.
Elapsed == ToNat(Sub32(currentMillis, solvedMillis))

\* Milliseconds the last execution of loop() took from its sensor snapshot.
TickLength == ToNat(Sub32(clock, obs.tickMillis))

AllDark ==
  \A k \in Strips : LS[k].ActivePattern = "none" /\ LS[k].pix = Black

\* The classification of a set of readings: a reset tag on any reader
\* wins; otherwise every reader must report its own beaker.
Classify(readings) ==
  IF \E i \in Readers : readings[i] = resetUid THEN "ResetRequested"
  ELSE IF \A i \in Readers : readings[i] = correctUid[i] THEN "AllCorrect"
  ELSE "Incorrect"

\* What the Powered case decided: it reset from a reader, or it left
\* beakersCorrect set, or it cleared it.
Decision ==
  IF obs.readerResets > 0 THEN "ResetRequested"
  ELSE IF beakersCorrect THEN "AllCorrect"
  ELSE "Incorrect"

\* C1: whenever an execution of loop() ends in Unpowered or Initializing,
\* the beaker lock is released.
C1_BeakerLockReleasedWhenUnpowered ==
  puzzleState \in {"Unpowered", "Initializing"} => ~beakerDoor

\* C2, as claimed: an execution of loop() during which a reader holds the
\* reset tag ends in Unpowered, whatever state it started in.  (Stated for
\* the executions in which no message arrives.)
C2_ResetTagAnyState ==
  obs.resetPresent /\ obs.cmd = "none" => puzzleState = "Unpowered"

\* C2, amended: an execution of loop() that starts in Powered, Solved or
\* GameOver, the states whose case polls the readers, and during which a
\* reader returns the reset tag ends in Unpowered, whatever the power and
\* door inputs, unless a solve command is dispatched later in the same
\* execution.
C2_ResetTagWhenPolled ==
  /\ obs.resetPresent
  /\ obs.pre \in {"Powered", "Solved", "GameOver"}
  /\ obs.cmd # "solve"
  => puzzleState = "Unpowered"

\* An execution that started in Powered with power asserted, read the reset
\* tag and ended in Unpowered.
C2_Witness ==
  /\ obs.resetPresent /\ obs.pre = "Powered" /\ alchemyPower
  /\ obs.readerResets > 0
  /\ puzzleState = "Unpowered"

\* C3: at the end of an execution of loop() that detected the reset tag on
\* a reader, every strip has no pattern and is dark.  (Stated for the
\* executions in which no message arrives.)
C3_ResetClearsPatterns ==
  obs.resetPresent /\ obs.readerResets > 0 /\ obs.cmd = "none" => AllDark

\* C4, as claimed: an execution of loop() that starts in Powered with power
\* asserted, the door closed and each reader returning its own beaker ends
\* in Solved.
C4_CorrectTokensSolve ==
  /\ obs.pre = "Powered" /\ alchemyPower /\ doorClosed
  /\ obs.rd = correctUid
  => puzzleState = "Solved"

\* C4, amended: such an execution ends in Solved unless a reset command is
\* dispatched later in the same execution.
C4_CorrectTokensSolveUnlessReset ==
  /\ obs.pre = "Powered" /\ alchemyPower /\ doorClosed
  /\ obs.rd = correctUid
  /\ obs.cmd # "reset"
  => puzzleState = "Solved"

\* The switch ran onSolve from Powered and the execution ended in Solved.
C4_Witness ==
  /\ obs.pre = "Powered" /\ alchemyPower /\ doorClosed
  /\ obs.rd = correctUid /\ obs.switchSolve /\ obs.cmd = "none"
  /\ puzzleState = "Solved"

\* C5: when the switch takes Powered to Solved, solvedMillis is the time of
\* that execution's sensor snapshot.  (Stated for the executions in which
\* no message arrives.)
C5_SolveTimestampIsTickTime ==
  obs.switchSolve /\ obs.cmd = "none" => solvedMillis = obs.tickMillis

\* C6, as claimed: an execution of loop() that starts in Solved and neither
\* resets nor receives a command ends in GameOver when the time since
\* solvedMillis is at least the 30 minute limit, and in Solved when it is
\* less.
C6_DwellAtLeast ==
  obs.pre = "Solved" /\ obs.readerResets = 0 /\ obs.cmd = "none"
  => /\ Elapsed >= Dwell => puzzleState = "GameOver"
     /\ Elapsed < Dwell => puzzleState = "Solved"

\* C6, amended: such an execution ends in GameOver when the time since
\* solvedMillis is greater than the limit, and in Solved when it is at most
\* the limit.
C6_DwellExceeded ==
  obs.pre = "Solved" /\ obs.readerResets = 0 /\ obs.cmd = "none"
  => /\ Elapsed > Dwell => puzzleState = "GameOver"
     /\ Elapsed <= Dwell => puzzleState = "Solved"

\* One millisecond past the limit, the execution ended in GameOver.
C6_Witness ==
  /\ obs.pre = "Solved" /\ obs.readerResets = 0 /\ obs.cmd = "none"
  /\ Elapsed = Dwell + 1
  /\ puzzleState = "GameOver"

\* C7: the crystal lock pin is LOW whenever an execution of loop() has
\* ended, whatever it read, received and did.
C7_CrystalLockNeverHeld == crystalDoor = FALSE

\* An execution that pulsed the crystal lock, from onSolve or onReset.
C7_Witness == obs.pulses > 0 /\ crystalDoor = FALSE

\* C8: an execution of loop() that runs the solve sequence returns to
\* sample the sensors and readers and to pump commands before the sequence
\* has run its length.
C8_SolveSequenceDoesNotBlock ==
  obs.solves > 0 => TickLength < SequenceMillis

\* C9: no reader whose poll failed causes a reset.
C9_FailedPollNeverResets == obs.failResets = 0

\* C10: what the Powered case decides is the classification of the
\* readings of the same execution of loop().
C10_DecisionIsClassification ==
  obs.pre = "Powered" => Decision = Classify(obs.rd)

\* A Powered execution in which reader 0 reported the reset tag and reader
\* 1 its own beaker: the reset is decided whatever the second reader holds.
C10_Witness ==
  /\ obs.pre = "Powered"
  /\ obs.rd = [i \in Readers |-> IF i = 0 THEN ResetTag ELSE BlueBeaker]
  /\ Decision = "ResetRequested"

\* C11: an execution of loop() in which a payload spelling "solve" in any
\* mix of cases is dispatched, whatever state it started in and whatever
\* the sensors and readers gave, runs onSolve from the callback and ends in
\* Solved with solvedMillis holding the time at which the sequence ended,
\* the crystal lock pulsed and LOW again.
C11_RemoteSolve ==
  obs.msg \in {MsgSolve, MsgSolveMixed}
  => /\ obs.cmd = "solve" /\ obs.solves > 0
     /\ puzzleState = "Solved"
     /\ solvedMillis = clock
     /\ TickLength >= SequenceMillis
     /\ obs.pulses > 0 /\ crystalDoor = FALSE

\* A mixed-case solve payload dispatched in an execution that started in
\* GameOver with power off and no tags.
C11_Witness ==
  /\ obs.msg = MsgSolveMixed /\ obs.pre = "GameOver" /\ ~alchemyPower
  /\ obs.rd = [i \in Readers |-> noUid]
  /\ puzzleState = "Solved" /\ solvedMillis = clock

\* C12: an execution of loop() in which a payload spelling "reset" in any
\* mix of cases is dispatched, whatever state it started in, runs onReset
\* from the callback and ends as a detected reset tag is meant to end: in
\* Unpowered, the beaker lock released, the crystal lock pulsed and LOW,
\* and every strip without pattern and dark.
C12_RemoteReset ==
  obs.msg = MsgReset
  => /\ obs.cmd = "reset"
     /\ puzzleState = "Unpowered"
     /\ beakerDoor = FALSE
     /\ obs.pulses > 0 /\ crystalDoor = FALSE
     /\ AllDark

\* A reset payload dispatched while the beaker lock was energized and a
\* strip was running a pattern.
C12_Witness ==
  /\ obs.msg = MsgReset /\ obs.atDispatch.beakerDoor
  /\ \E k \in Strips : obs.atDispatch.patterns[k] # "none"
  /\ puzzleState = "Unpowered" /\ beakerDoor = FALSE /\ AllDark

\* C13: a dispatched payload that spells neither "solve" nor "reset" leaves
\* the state, the solve timestamp, both lock pins and every strip's
\* pattern as they were when it was dispatched.
C13_UnknownCommandIgnored ==
  /\ obs.msg # NoMessage
  /\ lowered(obs.msg) \notin {<<"s", "o", "l", "v", "e">>,
                              <<"r", "e", "s", "e", "t">>}
  => /\ obs.cmd = "unknown"
     /\ Held(Machine) = obs.atDispatch

\* An unknown payload dispatched in Powered with the beaker lock energized
\* and the beaker strip flashing: all of it is still so afterwards.
C13_Witness ==
  /\ obs.msg = MsgOther /\ obs.cmd = "unknown"
  /\ puzzleState = "Powered" /\ beakerDoor
  /\ LS[1].ActivePattern = "flash"
  /\ Held(Machine) = obs.atDispatch

\* Every pixel of every strip is dark.
Extinguished == \A k \in Strips : LS[k].pix = Black

\* C14: whenever an execution of loop() ends in GameOver, be it the one
\* in which Solved expired or a later one, the four strips are dark and
\* the beaker lock is released.
C14_GameOverDarkAndReleased ==
  puzzleState = "GameOver" => Extinguished /\ beakerDoor = FALSE

\* C15: an execution of loop() in which the switch takes Powered to Solved
\* ends with the beaker lock energized, also when the door was closed in
\* the first execution that read both beakers correctly.  (Stated for the
\* executions in which no message arrives.)
C15_LockEngagedOnSolve ==
  obs.switchSolve /\ obs.cmd = "none"
  => puzzleState = "Solved" /\ beakerDoor = TRUE

\* C16, as claimed: an execution of loop() that starts in Powered and
\* reads the power sensor de-asserted ends in Unpowered with every strip
\* without pattern and dark, whatever the readers and the door gave.
C16_PowerLossExtinguishes ==
  obs.pre = "Powered" /\ ~alchemyPower
  => puzzleState = "Unpowered" /\ AllDark

\* C16, amended: such an execution ends so unless a solve command is
\* dispatched later in the same execution.
C16_PowerLossExtinguishesUnlessSolve ==
  obs.pre = "Powered" /\ ~alchemyPower /\ obs.cmd # "solve"
  => puzzleState = "Unpowered" /\ AllDark

\* The first Powered execution, with power de-asserted and no beakers: it
\* started the red flash on the beaker strip (Color1 is the flash colour)
\* and still ended in Unpowered with every strip dark.
C16_Witness ==
  /\ obs.pre = "Powered" /\ ~alchemyPower /\ obs.cmd = "none"
  /\ nticks = 3 /\ LS[1].Color1 = Red
  /\ puzzleState = "Unpowered" /\ AllDark

\* C17: in no execution of loop() is a lock pin written after a strip's
\* frame has gone out with show() in the same execution, the one that
\* runs onSolve or onReset included.  (Stated for the executions in which
\* no message arrives.)
C17_NoLockWriteAfterShow ==
  obs.cmd = "none" => obs.lockAfterShow = FALSE

Colours == {Black, Red, Green, Blue, Purple}

\* A strip on which a flash of colour c was started and which has since
\* advanced by no, one or two frames.
Flashing(s, c) ==
  {Flash(s, c), Update(Flash(s, c)), Update(Update(Flash(s, c)))}

C20_StartAndPowerUp ==
  /\ nticks > 0 /\ obs.pre = "Initializing"
     => puzzleState = "Unpowered" /\ beakerDoor = FALSE
  /\ obs.pre = "Unpowered"
     => puzzleState = IF alchemyPower THEN "Powered" ELSE "Unpowered"

\* C20, amended: the first execution ends so unless a solve command is
\* dispatched in it; an execution that starts in Unpowered ends so unless
\* a solve or reset command is dispatched in it.
C20_StartAndPowerUpUnlessCommand ==
  /\ nticks > 0 /\ obs.pre = "Initializing" /\ obs.cmd # "solve"
     => puzzleState = "Unpowered" /\ beakerDoor = FALSE
  /\ obs.pre = "Unpowered" /\ obs.cmd \notin {"solve", "reset"}
     => puzzleState = IF alchemyPower THEN "Powered" ELSE "Unpowered"

\* An execution that started in Unpowered with power asserted, the door
\* open and the reset tag on a reader, and ended in Powered.
C20_Witness ==
  /\ obs.pre = "Unpowered" /\ obs.cmd = "none"
  /\ alchemyPower /\ ~doorClosed /\ obs.resetPresent
  /\ puzzleState = "Powered"

\* C21: an execution of loop() without a message that starts in Solved
\* ends in Unpowered if a reader reported the reset tag, else in GameOver
\* if the 30 minute limit had passed, else in Solved; one that starts in
\* GameOver ends in Unpowered if a reader reported the reset tag and in
\* GameOver if not.  Power, the door and what else the readers report,
\* a missing tag included, make no difference.
C21_SolvedAndGameOverExits ==
  obs.cmd = "none"
  => /\ obs.pre = "Solved"
        => puzzleState = IF obs.resetPresent THEN "Unpowered"
                         ELSE IF obs.expired THEN "GameOver" ELSE "Solved"
     /\ obs.pre = "GameOver"
        => puzzleState = IF obs.resetPresent THEN "Unpowered" ELSE "GameOver"

\* C22: no execution of loop() pulses the crystal lock more than once,
\* whatever the readers return, the reset tag on both of them included.
\* (Stated for the executions in which no message arrives.)
C22_AtMostOnePulse ==
  obs.cmd = "none" => obs.pulses <= 1

\* The time from the moment solvedMillis was taken to the moment
\* currentMillis was taken, counted without the 32-bit limit: the
\* difference of the two values of millis(), each with the number of times
\* the counter had started again from zero as a third word in front.
TrueElapsed ==
  LET l == currentMillis[2] - solvedMillis[2]
      h == (currentMillis[1] - solvedMillis[1]) - (IF l < 0 THEN 1 ELSE 0)
      w == (wraps.current - wraps.solved) - (IF h < 0 THEN 1 ELSE 0)
  IN  <<w, h % HalfWord, l % HalfWord>>

TrueElapsedExceedsDwell ==
  \/ TrueElapsed[1] > 0
  \/ TrueElapsed[1] = 0 /\ Gt32(<<TrueElapsed[2], TrueElapsed[3]>>, Dwell)

\* C23: an execution of loop() that starts in Solved and neither resets
\* nor receives a command ends in GameOver exactly when the time since the
\* solve, counted without the 32-bit limit, is greater than the 30 minute
\* limit, also when millis() has started again from zero in between.
C23_DwellCheckSurvivesWrap ==
  obs.pre = "Solved" /\ obs.readerResets = 0 /\ obs.cmd = "none"
  => /\ TrueElapsedExceedsDwell => puzzleState = "GameOver"
     /\ ~TrueElapsedExceedsDwell => puzzleState = "Solved"

\* millis() started again from zero after the solve, currentMillis is the
\* smaller of the two values, and one millisecond past the limit the
\* execution ended in GameOver.
C23_Witness ==
  /\ obs.pre = "Solved" /\ obs.readerResets = 0 /\ obs.cmd = "none"
  /\ wraps.current = wraps.solved + 1
  /\ currentMillis[1] < solvedMillis[1]
  /\ TrueElapsed = <<0, (Dwell + 1) \div HalfWord, (Dwell + 1) % HalfWord>>
  /\ puzzleState = "GameOver"

\* The same, one millisecond short of the limit: the execution ended in
\* Solved.
C23_WitnessNotYet ==
  /\ obs.pre = "Solved" /\ obs.readerResets = 0 /\ obs.cmd = "none"
  /\ wraps.current = wraps.solved + 1
  /\ TrueElapsed = <<0, (Dwell - 1) \div HalfWord, (Dwell - 1) % HalfWord>>
  /\ puzzleState = "Solved"

====
